---- MODULE Spec2Model ----
(***************************************************************************)
(* SpreadsheetHelper.SheetTable / SheetRow (src/SpreadsheetHelper.ts):     *)
(* a table over one sheet of a spreadsheet, its rows as records, an        *)
(* optional index over key headers, and row handles that write through.   *)
(*                                                                         *)
(* The sheet is the environment: a grid of cells, a frozen-row count.      *)
(* Every call that changes something is one action, and the error it threw *)
(* (if any) is kept in the variable ret; the calls that only read          *)
(* (getRowByKey, getRows) are operators of the state.                      *)
(***************************************************************************)
EXTENDS Integers, Sequences, FiniteSets, TLC

\* ------------------------------------------------------------------ bounds
\* Physical rows of the sheet that are modelled (row 1 is the header row).
MaxLine == 3
\* Physical columns of the sheet that are modelled.
MaxCol == 2
\* Largest batch handed to addRecords.
MaxBatch == 2

\* ------------------------------------------------------------------ values
\* CellValue | null (lines 346-347), each value with its JavaScript type.
Str(s) == [t |-> "string", v |-> s]
Num(s) == [t |-> "number", v |-> s]
Null == [t |-> "null", v |-> ""]
\* What record[h] gives for a field the record does not have.
Undefined == [t |-> "undefined", v |-> ""]
\* The value getValues() of a range gives for an empty cell.
EmptyText == Str("")

\* `x == null` of JavaScript: true of null and of undefined only.
IsNullish(x) == x.t \in {"null", "undefined"}

\* record[h]
Get(record, h) == IF h \in DOMAIN record THEN record[h] ELSE Undefined

Range(s) == {s[i] : i \in DOMAIN s}

RECURSIVE MaxOf(_)
MaxOf(S) == IF S = {} THEN 0
            ELSE LET x == CHOOSE y \in S : TRUE
                     m == MaxOf(S \ {x})
                 IN IF x > m THEN x ELSE m

\* ------------------------------------------------------------------ sheet
\* A row of the grid without content.
IsBlankRow(row) == \A c \in DOMAIN row : row[c] = EmptyText

\* Sheet.getLastRow(): the position of the last row that has content.
SheetLastRow(grid) == MaxOf({r \in DOMAIN grid : ~IsBlankRow(grid[r])})

\* Sheet.getLastColumn(): the position of the last column that has content.
SheetLastColumn(grid) ==
    MaxOf({c \in 1..MaxCol : \E r \in DOMAIN grid : grid[r][c] # EmptyText})

\* Sheet.getRange(1, 1, numRows, numColumns) throws unless both are >= 1.
CanGetRange(grid) == SheetLastRow(grid) >= 1 /\ SheetLastColumn(grid) >= 1

\* The range getSheetRange(true) builds: rows 1..lastRow, columns 1..lastColumn.
SheetRange(grid) ==
    [lastRow |-> SheetLastRow(grid), lastColumn |-> SheetLastColumn(grid)]

\* this.range before the first getSheetRange.
NoRange == [lastRow |-> 0, lastColumn |-> 0]

\* Range.getValues(): the cells of the range, row by row.
RangeValues(grid, rng) ==
    [r \in 1..rng.lastRow |-> [c \in 1..rng.lastColumn |-> grid[r][c]]]

\* ------------------------------------------------------------------ state
VARIABLES
    sheetExists,   \* spreadsheet.getSheetByName(sheetName) finds a sheet
    frozenRows,    \* sheet.getFrozenRows()
    cells,         \* the grid: cells[r][c], EmptyText where a cell is empty
    status,        \* "new" before the constructor ran, then "ready" or "failed"
    keyHeaders,    \* options.keyHeaders (<<>> when not given)
    headers,       \* this.headers
    headerColumn,  \* this.headerColumn
    lastRow,       \* this.lastRow
    range,         \* this.range
    rowByKeyMap,   \* this.rowByKeyMap: record hash -> handle (its place in rows)
    rows,          \* this.rows in insertion order: [rowRecord, rowLine] per handle
    ret            \* the last call that changed something: its name and error

vars == <<sheetExists, frozenRows, cells, status, keyHeaders, headers,
          headerColumn, lastRow, range, rowByKeyMap, rows, ret>>

sheetVars == <<sheetExists, frozenRows, cells>>

\* The outcome of a call: its name, the error it threw ("none" if it
\* returned) and the two lines a duplicate-key error names (0 otherwise).
Ret(op, err) == [op |-> op, err |-> err, existLine |-> 0, newLine |-> 0]

NoCall == Ret("none", "none")

\* ------------------------------------------------------------------ index
\* JSON.stringify of one key value.
JsonValue(x) ==
    CASE x.t = "string" -> "\"" \o x.v \o "\""
      [] x.t = "number" -> x.v
      [] OTHER -> "null"

RECURSIVE JsonItems(_, _)
JsonItems(vals, i) ==
    IF i > Len(vals) THEN ""
    ELSE (IF i > 1 THEN "," ELSE "") \o JsonValue(vals[i]) \o JsonItems(vals, i + 1)

\* getRecordHash on an array of key values: JSON.stringify(keyValues).
KeyHash(keyValues) == "[" \o JsonItems(keyValues, 1) \o "]"

\* The key values of a record: record[h] for each key header, in order.
KeyValues(keys, record) == [i \in 1..Len(keys) |-> Get(record, keys[i])]

\* getRecordHash on a record.
GetRecordHash(keys, record) == KeyHash(KeyValues(keys, record))

\* keyHeaders.every(h => record[h] == null)
AllKeysNull(keys, record) == \A i \in 1..Len(keys) : IsNullish(Get(record, keys[i]))

\* new SheetRow(table, record, line, hook)
SheetRow(record, line) == [rowRecord |-> record, rowLine |-> line]

\* The in-memory table attachRow works on, and the error it throws (if any).
Attached(rws, idx, err, existLine, newLine) ==
    [rows |-> rws, rowByKeyMap |-> idx, err |-> err,
     existLine |-> existLine, newLine |-> newLine]

\* attachRow as it would be without the test for a taken hash: the new handle
\* takes the hash over.
AttachRowOverwrite(keys, rws, idx, id, row) ==
    LET rws2 == IF id \notin DOMAIN rws THEN Append(rws, row) ELSE rws
    IN IF Len(keys) = 0 \/ AllKeysNull(keys, row.rowRecord)
       THEN Attached(rws2, idx, "none", 0, 0)
       ELSE Attached(rws2, (GetRecordHash(keys, row.rowRecord) :> id) @@ idx, "none", 0, 0)

\* attachRow(row) for the handle id, whose record and line are row: the handle
\* joins this.rows if it is new; with key headers and a key that is not
\* all null, a new handle whose hash is taken throws, any other sets the hash.
AttachRow(keys, rws, idx, id, row) ==
    LET isNewRow == id \notin DOMAIN rws
        rws2 == IF isNewRow THEN Append(rws, row) ELSE rws
        recHash == GetRecordHash(keys, row.rowRecord)
    IN IF Len(keys) = 0 \/ AllKeysNull(keys, row.rowRecord)
       THEN Attached(rws2, idx, "none", 0, 0)
       ELSE IF isNewRow /\ recHash \in DOMAIN idx
            THEN Attached(rws2, idx, "DuplicateKey",
                          rws2[idx[recHash]].rowLine, row.rowLine)
            ELSE Attached(rws2, (recHash :> id) @@ idx, "none", 0, 0)

\* createInternalRows as it would be with the line one too low (lastRow + index).
RECURSIVE CreateInternalRowsLineBefore(_, _, _, _, _, _)
CreateInternalRowsLineBefore(keys, rws, idx, records, lastRowArg, i) ==
    IF i > Len(records) THEN Attached(rws, idx, "none", 0, 0)
    ELSE LET row == SheetRow(records[i], lastRowArg + (i - 1))
             a == AttachRow(keys, rws, idx, Len(rws) + 1, row)
         IN IF a.err # "none" THEN a
            ELSE CreateInternalRowsLineBefore(keys, a.rows, a.rowByKeyMap, records,
                                              lastRowArg, i + 1)

\* createInternalRows(records, lastRow) from record i on: one new handle per
\* record at line lastRow + index + 1 (index from 0), each attached by its
\* constructor; the first throw ends the call.
RECURSIVE CreateInternalRows(_, _, _, _, _, _)
CreateInternalRows(keys, rws, idx, records, lastRowArg, i) ==
    IF i > Len(records) THEN Attached(rws, idx, "none", 0, 0)
    ELSE LET row == SheetRow(records[i], lastRowArg + (i - 1) + 1)
             a == AttachRow(keys, rws, idx, Len(rws) + 1, row)
         IN IF a.err # "none" THEN a
            ELSE CreateInternalRows(keys, a.rows, a.rowByKeyMap, records,
                                    lastRowArg, i + 1)

\* ------------------------------------------------------------------ schema
\* The header test as it would be without the test for repeated headers.
HeaderTestWithoutRepeats(hdr) ==
    IF \E i \in DOMAIN hdr : hdr[i] = EmptyText THEN "EmptyHeader"
    ELSE IF \E i \in DOMAIN hdr : hdr[i].t # "string" THEN "NonStringHeader"
    ELSE "none"

\* The header test of the constructor, in its order: empty, non-string, repeated.
HeaderTest(hdr) ==
    IF \E i \in DOMAIN hdr : hdr[i] = EmptyText THEN "EmptyHeader"
    ELSE IF \E i \in DOMAIN hdr : hdr[i].t # "string" THEN "NonStringHeader"
    ELSE IF Cardinality(Range(hdr)) # Len(hdr) THEN "DuplicateHeader"
    ELSE "none"

\* headerColumn as it would be with the index of reduce as the column (from 0).
HeaderColumnFromZero(names) ==
    [h \in Range(names) |-> MaxOf({i \in DOMAIN names : names[i] = h}) - 1]

\* headers.reduce((res, h, index) => res.set(h, index + 1)): a later column wins.
HeaderColumnOf(names) ==
    [h \in Range(names) |-> MaxOf({i \in DOMAIN names : names[i] = h})]

\* The key and mandatory headers the header row lacks.
LostHeaders(keys, mandatory, hc) == (Range(keys) \cup mandatory) \ DOMAIN hc

\* The row loading as it would be without the turn of empty text into null.
DecodeRowKeepEmpty(hc, rowValues) ==
    [h \in DOMAIN hc |->
        IF hc[h] \in DOMAIN rowValues THEN rowValues[hc[h]] ELSE Null]

\* The row loading of the constructor: one record per data row, every header
\* present, the cell of its column or null where it is absent or empty text.
DecodeRow(hc, rowValues) ==
    [h \in DOMAIN hc |->
        LET val == IF hc[h] \in DOMAIN rowValues THEN rowValues[hc[h]] ELSE Null
        IN IF val = EmptyText THEN Null ELSE val]

\* getValues(record): the row written for a record, null as empty text.
GetValues(hdrs, record) ==
    [c \in 1..Len(hdrs) |->
        LET cellVal == Get(record, hdrs[c])
        IN IF IsNullish(cellVal) THEN EmptyText ELSE cellVal]

\* ------------------------------------------------------------------ inputs
\* Header cells a sheet may start with: two names, an empty cell, a number.
HeaderCells == {Str("id"), Str("name"), EmptyText, Num("7")}

IdValues == {Null, Num("1"), Num("2")}
NameValues == {Null, Str("a")}

\* Data cells a sheet may start with under a header cell: a column titled id
\* carries ids, a column titled name carries names, any other column is blank.
DataCells(h) ==
    IF h = Str("id") THEN {EmptyText, Num("1"), Num("2")}
    ELSE IF h = Str("name") THEN {EmptyText, Str("a")}
    ELSE {EmptyText}

\* Data rows a sheet may start with under a header row, blank ones too.
DataRows(hdr) ==
    {row \in [1..MaxCol -> UNION {DataCells(h) : h \in HeaderCells}] :
       \A c \in 1..MaxCol : row[c] \in DataCells(hdr[c])}

\* The sheet of MaxLine rows with header row hdr above the data rows.
Grid(hdr, data) == [r \in 1..MaxLine |-> IF r = 1 THEN hdr ELSE data[r]]

\* Options of the constructor: key headers and mandatory headers.
KeyHeaderOptions == {<<>>, <<"id">>}
MandatoryOptions == {{}, {"name"}}

\* ------------------------------------------------------------------ actions
\* The table before its constructor ran.
TableNew ==
    /\ status = "new"
    /\ keyHeaders = <<>>
    /\ headers = <<>>
    /\ headerColumn = <<>>
    /\ lastRow = 0
    /\ range = NoRange
    /\ rowByKeyMap = <<>>
    /\ rows = <<>>
    /\ ret = NoCall

\* A spreadsheet without the sheet has no cells to tell apart.
BlankGrid == [r \in 1..MaxLine |-> [c \in 1..MaxCol |-> EmptyText]]

Init ==
    /\ sheetExists \in BOOLEAN
    /\ frozenRows \in 0..2
    /\ IF sheetExists
       THEN \E hdr \in [1..MaxCol -> HeaderCells] :
              \E data \in [2..MaxLine -> DataRows(hdr)] : cells = Grid(hdr, data)
       ELSE cells = BlankGrid
    /\ TableNew

\* The constructor threw err with the fields as they were at the throw.
ConstructEnds(st, err, keys, rng, hdrs, hc, att) ==
    /\ status' = st
    /\ keyHeaders' = keys
    /\ range' = rng
    /\ lastRow' = rng.lastRow
    /\ headers' = hdrs
    /\ headerColumn' = hc
    /\ rowByKeyMap' = att.rowByKeyMap
    /\ rows' = att.rows
    /\ ret' = [Ret("construct", err) EXCEPT !.existLine = att.existLine,
                                             !.newLine = att.newLine]
    /\ UNCHANGED sheetVars

NothingAttached == Attached(<<>>, <<>>, "none", 0, 0)

\* new SheetTable(sheetName, {keyHeaders: keys, mandatoryHeaders: mandatory})
Construct(keys, mandatory) ==
    /\ status = "new"
    /\ IF ~sheetExists
       THEN ConstructEnds("failed", "SheetNotFound", keys, NoRange, <<>>, <<>>, NothingAttached)
       ELSE IF frozenRows = 0
       THEN ConstructEnds("failed", "NoFrozenHeader", keys, NoRange, <<>>, <<>>, NothingAttached)
       ELSE IF frozenRows > 1
       THEN ConstructEnds("failed", "MultiRowHeader", keys, NoRange, <<>>, <<>>, NothingAttached)
       ELSE IF ~CanGetRange(cells)
       THEN ConstructEnds("failed", "GetRangeFailed", keys, NoRange, <<>>, <<>>, NothingAttached)
       ELSE
       LET rng == SheetRange(cells)
           sheetValues == RangeValues(cells, rng)
           hdr == sheetValues[1]
           headerErr == HeaderTest(hdr)
           names == [i \in DOMAIN hdr |-> hdr[i].v]
           hc == HeaderColumnOf(names)
           records == [i \in 1..(rng.lastRow - 1) |-> DecodeRow(hc, sheetValues[i + 1])]
           att == CreateInternalRows(keys, <<>>, <<>>, records, 1, 1)
       IN IF rng.lastRow = 0 \/ rng.lastColumn = 0
          THEN ConstructEnds("failed", "EmptyTable", keys, rng, <<>>, <<>>, NothingAttached)
          ELSE IF headerErr # "none"
          THEN ConstructEnds("failed", headerErr, keys, rng, <<>>, <<>>, NothingAttached)
          ELSE IF LostHeaders(keys, mandatory, hc) # {}
          THEN ConstructEnds("failed", "MissingHeaders", keys, rng, names, hc, NothingAttached)
          ELSE ConstructEnds(IF att.err = "none" THEN "ready" ELSE "failed",
                             att.err, keys, rng, names, hc, att)

\* The fields of the table that no call changes after construction.
schemaVars == <<status, keyHeaders, headers, headerColumn>>

\* The write as it would be one row too low.
SetValuesOneBelow(grid, first, values) ==
    [r \in DOMAIN grid |->
        IF r >= first + 1 /\ r < first + 1 + Len(values)
        THEN [c \in DOMAIN grid[r] |->
                 IF c \in DOMAIN values[r - first]
                 THEN values[r - first][c] ELSE grid[r][c]]
        ELSE grid[r]]

\* The write as it would be one row too high (offset by lastRow - 1).
SetValuesOneAbove(grid, first, values) ==
    [r \in DOMAIN grid |->
        IF r >= first - 1 /\ r < first - 1 + Len(values)
        THEN [c \in DOMAIN grid[r] |->
                 IF c \in DOMAIN values[r - first + 2]
                 THEN values[r - first + 2][c] ELSE grid[r][c]]
        ELSE grid[r]]

\* The grid with the rows of values written from row first on, columns from 1.
SetValues(grid, first, values) ==
    [r \in DOMAIN grid |->
        IF r >= first /\ r < first + Len(values)
        THEN [c \in DOMAIN grid[r] |->
                 IF c \in DOMAIN values[r - first + 1]
                 THEN values[r - first + 1][c] ELSE grid[r][c]]
        ELSE grid[r]]

\* A batch of n records stays within the rows of the sheet that are modelled,
\* and the table within as many handles.
Fits(n) ==
    /\ lastRow + n <= Len(cells)
    /\ Len(rows) + n < Len(cells)

\* addRecords as it would be if it validated before it wrote: the handles are
\* created first, and a throw leaves the sheet as it was.
AddRecordsValidateFirst(records) ==
    /\ status = "ready"
    /\ Fits(Len(records))
    /\ Len(records) > 0
    /\ LET values == [i \in DOMAIN records |-> GetValues(headers, records[i])]
           att == CreateInternalRows(keyHeaders, rows, rowByKeyMap, records,
                                     range.lastRow, 1)
           written == IF att.err = "none" THEN SetValues(cells, lastRow + 1, values)
                      ELSE cells
       IN /\ cells' = written
          /\ range' = SheetRange(written)
          /\ lastRow' = SheetLastRow(written)
          /\ rows' = att.rows
          /\ rowByKeyMap' = att.rowByKeyMap
          /\ ret' = [Ret("addRecords", att.err) EXCEPT
                        !.existLine = att.existLine, !.newLine = att.newLine]
          /\ UNCHANGED <<sheetExists, frozenRows, schemaVars>>

\* addRecords(records): the rows of the records are written below this.lastRow,
\* the range and this.lastRow are read again, then the handles are created
\* from the last row of the range as it was before the call.
AddRecords(records) ==
    /\ status = "ready"
    /\ Fits(Len(records))
    /\ IF Len(records) = 0
       THEN \* values[0].length of an empty array
            /\ ret' = Ret("addRecords", "TypeError")
            /\ UNCHANGED <<sheetVars, schemaVars, lastRow, range, rowByKeyMap, rows>>
       ELSE LET values == [i \in DOMAIN records |-> GetValues(headers, records[i])]
                lastRowBefore == range.lastRow
                written == SetValues(cells, lastRow + 1, values)
                att == CreateInternalRows(keyHeaders, rows, rowByKeyMap, records,
                                          lastRowBefore, 1)
            IN /\ cells' = written
               /\ range' = SheetRange(written)
               /\ lastRow' = SheetLastRow(written)
               /\ rows' = att.rows
               /\ rowByKeyMap' = att.rowByKeyMap
               /\ ret' = [Ret("addRecords", att.err) EXCEPT
                             !.existLine = att.existLine, !.newLine = att.newLine]
               /\ UNCHANGED <<sheetExists, frozenRows, schemaVars>>

\* The spread as it would be without the fields of the record.
WithFieldAlone(record, header, value) == [h \in {header} |-> value]

\* {...record, [header]: value}
WithField(record, header, value) ==
    [h \in DOMAIN record \cup {header} |-> IF h = header THEN value ELSE record[h]]

\* SheetRow.setValue(header, value) on the handle id: getCell finds the column
\* of the header and the cell of the cached range, the cell is written (null as
\* empty text), the record is replaced and the handle is attached again.
SetValue(id, header, value) ==
    /\ status = "ready"
    /\ id \in DOMAIN rows
    /\ IF header \notin DOMAIN headerColumn
       THEN /\ ret' = Ret("setValue", "HeaderNotFound")
            /\ UNCHANGED <<sheetVars, schemaVars, lastRow, range, rowByKeyMap, rows>>
       ELSE IF rows[id].rowLine > range.lastRow \/ headerColumn[header] > range.lastColumn
       THEN \* Range.getCell outside the range
            /\ ret' = Ret("setValue", "CellOutOfRange")
            /\ UNCHANGED <<sheetVars, schemaVars, lastRow, range, rowByKeyMap, rows>>
       ELSE LET line == rows[id].rowLine
                row == [rows[id] EXCEPT !.rowRecord = WithField(@, header, value)]
                att == AttachRow(keyHeaders, [rows EXCEPT ![id] = row], rowByKeyMap, id, row)
            IN /\ cells' = [cells EXCEPT ![line][headerColumn[header]] =
                                IF IsNullish(value) THEN EmptyText ELSE value]
               /\ rows' = att.rows
               /\ rowByKeyMap' = att.rowByKeyMap
               /\ ret' = [Ret("setValue", att.err) EXCEPT
                             !.existLine = att.existLine, !.newLine = att.newLine]
               /\ UNCHANGED <<sheetExists, frozenRows, schemaVars, lastRow, range>>

\* SheetRow.getValue(header): this.rowRecord[header], whatever the header; it
\* never throws.
GetValue(row, header) == [err |-> "none", value |-> Get(row.rowRecord, header)]

\* SheetRow.getLine()
GetLine(row) == row.rowLine

\* indexed()
Indexed(keys) == Len(keys) # 0

\* getHeaderColumn(headerName): the column of the header, or an error.
GetHeaderColumn(hc, headerName) ==
    IF headerName \in DOMAIN hc THEN [err |-> "none", column |-> hc[headerName]]
    ELSE [err |-> "HeaderNotFound", column |-> 0]

\* getRowByKey as it would be without the test of the number of key values.
GetRowByKeyAnyLength(keys, idx, rowKeys) ==
    IF ~Indexed(keys) THEN [err |-> "NotIndexed", row |-> 0]
    ELSE [err |-> "none", row |-> IF KeyHash(rowKeys) \in DOMAIN idx
                                  THEN idx[KeyHash(rowKeys)] ELSE 0]

\* getRowByKey(key): an error, or a handle (0 for undefined). It changes
\* nothing. A key that is no array stands for the array of that one value.
GetRowByKey(keys, idx, rowKeys) ==
    IF ~Indexed(keys) THEN [err |-> "NotIndexed", row |-> 0]
    ELSE IF Len(rowKeys) # Len(keys) THEN [err |-> "KeyArity", row |-> 0]
    ELSE LET rowKey == KeyHash(rowKeys)
         IN [err |-> "none", row |-> IF rowKey \in DOMAIN idx THEN idx[rowKey] ELSE 0]

\* getRows()
GetRows == rows

\* Records handed to addRecords, and the batches of them.
RecordInputs == [id : IdValues, name : NameValues]

Batches(records) == UNION {[1..n -> records] : n \in 0..MaxBatch}

RecordBatches == Batches(RecordInputs)

\* Arguments of setValue: a header (one of them not in any header row) and a value.
FieldInputs == {"id", "name", "code"}
ValueInputs(header) == IF header = "id" THEN IdValues ELSE NameValues

\* Keys handed to getRowByKey: none, one or two values.
KeyInputs == {<<>>} \cup {<<x>> : x \in IdValues}
                    \cup {<<x, y>> : x \in IdValues, y \in NameValues}

Next ==
    \/ \E keys \in KeyHeaderOptions, mandatory \in MandatoryOptions :
          Construct(keys, mandatory)
    \/ \E records \in RecordBatches : AddRecords(records)
    \/ \E id \in 1..MaxLine, header \in FieldInputs :
          \E value \in ValueInputs(header) : SetValue(id, header, value)

Spec == Init /\ [][Next]_vars

\* ------------------------------------------------------------------ returning
\* The calls that return: the table is used only through calls that did not
\* throw.
ConstructReturns(keys, mandatory) == Construct(keys, mandatory) /\ ret'.err = "none"

AddRecordsReturns(records) == AddRecords(records) /\ ret'.err = "none"

SetValueReturns(id, header, value) == SetValue(id, header, value) /\ ret'.err = "none"

NextReturning ==
    \/ \E keys \in KeyHeaderOptions, mandatory \in MandatoryOptions :
          ConstructReturns(keys, mandatory)
    \/ \E records \in RecordBatches : AddRecordsReturns(records)
    \/ \E id \in 1..MaxLine, header \in FieldInputs :
          \E value \in ValueInputs(header) : SetValueReturns(id, header, value)

SpecReturning == Init /\ [][NextReturning]_vars

\* ------------------------------------------------------------------ scenario
\* The table of the worked example: headers id and name, the rows (1, a) and
\* (2, b), on a sheet with two more rows, and calls with values of its kind.
ScenarioRow(x, y) == [c \in 1..MaxCol |-> IF c = 1 THEN x ELSE IF c = 2 THEN y ELSE EmptyText]

ScenarioGrid ==
    << ScenarioRow(Str("id"), Str("name")),
       ScenarioRow(Num("1"), Str("a")),
       ScenarioRow(Num("2"), Str("b")),
       ScenarioRow(EmptyText, EmptyText),
       ScenarioRow(EmptyText, EmptyText) >>

ScenarioRecords == [id : {Num("2"), Num("3")}, name : {Str("c")}]

ScenarioValues(header) == IF header = "id" THEN {Num("2"), Num("3")} ELSE {Str("c")}

InitScenario ==
    /\ sheetExists = TRUE
    /\ frozenRows = 1
    /\ cells = ScenarioGrid
    /\ TableNew

NextScenario ==
    \/ \E keys \in KeyHeaderOptions, mandatory \in MandatoryOptions :
          Construct(keys, mandatory)
    \/ \E records \in Batches(ScenarioRecords) : AddRecords(records)
    \/ \E id \in 1..Len(ScenarioGrid), header \in FieldInputs :
          \E value \in ScenarioValues(header) : SetValue(id, header, value)

SpecScenario == InitScenario /\ [][NextScenario]_vars

\* ------------------------------------------------------------------ claims
\* The key values a handle holds, and whether they make a key (not all null).
KeyOf(row) == KeyValues(keyHeaders, row.rowRecord)
HoldsKey(row) == Indexed(keyHeaders) /\ ~AllKeysNull(keyHeaders, row.rowRecord)

\* The handle the index gives for a hash (0 if none).
IndexEntry(idx, hash) == IF hash \in DOMAIN idx THEN idx[hash] ELSE 0

\* Every value a caller of these specifications passes to setValue.
AnyValue == IdValues \cup NameValues \cup ScenarioValues("id") \cup ScenarioValues("name")

\* The cells of row line of the grid under the headers of the table.
RowUnderHeaders(hdrs, grid, line) == [c \in 1..Len(hdrs) |-> grid[line][c]]

\* C1: in an indexed table, when handle a holds the key k and is indexed under
\* it, a setValue on a key header of another handle b that makes b's key k
\* fails with the duplicate-key error, and the index still gives a for k.
C1_SetValueCollisionFails ==
    [][\A b \in DOMAIN rows, h \in Range(keyHeaders), v \in AnyValue :
         \A a \in DOMAIN rows \ {b} :
           LET after == WithField(rows[b].rowRecord, h, v)
               k == KeyValues(keyHeaders, after)
           IN (/\ SetValue(b, h, v)
               /\ ret'.err \notin {"HeaderNotFound", "CellOutOfRange"}
               /\ ~AllKeysNull(keyHeaders, after)
               /\ KeyOf(rows[b]) # k
               /\ KeyOf(rows[a]) = k
               /\ IndexEntry(rowByKeyMap, KeyHash(k)) = a)
              => (/\ ret'.err = "DuplicateKey"
                  /\ IndexEntry(rowByKeyMap', KeyHash(k)) = a)]_vars

\* C2: in every state of an indexed table, no two handles of getRows() hold
\* the same key values, unless those values are all null.
C2_NoTwoRowsWithOneKey ==
    (status = "ready" /\ Indexed(keyHeaders)) =>
        \A i, j \in DOMAIN GetRows :
            (i # j /\ KeyOf(GetRows[i]) = KeyOf(GetRows[j]))
                => AllKeysNull(keyHeaders, GetRows[i].rowRecord)

\* The handles an addRecords step added to this.rows at the line its
\* duplicate-key error names for the new row: the handles of the failing record.
FailingHandles ==
    {i \in DOMAIN rows' \ DOMAIN rows : rows'[i].rowLine = ret'.newLine}

\* C3: after an addRecords that failed on a key already indexed, getRows() has
\* no handle for the failing record and no index entry points to one.
C3_FailedAddLeavesNoHandle ==
    [][(ret'.op = "addRecords" /\ ret'.err = "DuplicateKey") =>
          /\ FailingHandles = {}
          /\ \A hash \in DOMAIN rowByKeyMap' : rowByKeyMap'[hash] \notin FailingHandles]_vars

\* C4: a new handle absorbed by the constructor or by addRecords collides when
\* its key (not all null) is already indexed by another handle. Every
\* collision ends the call with the duplicate-key error, which names the line
\* of the handle indexed under the key and the line of the new handle (the row
\* of the grid that holds its record), and no entry of the index is changed;
\* without a collision every new handle with a key is indexed under it.
HoldsKeyAfter(i) ==
    Indexed(keyHeaders') /\ ~AllKeysNull(keyHeaders', rows'[i].rowRecord)

AbsorbedWell(i) ==
    HoldsKeyAfter(i) =>
        /\ IndexEntry(rowByKeyMap, GetRecordHash(keyHeaders', rows'[i].rowRecord)) = 0
        /\ IndexEntry(rowByKeyMap', GetRecordHash(keyHeaders', rows'[i].rowRecord)) = i

C4_AbsorbCollisionNamesBothLines ==
    [][(ret'.op \in {"construct", "addRecords"}) =>
          LET new == DOMAIN rows' \ DOMAIN rows
              last == Len(rows')
              hash == GetRecordHash(keyHeaders', rows'[last].rowRecord)
              exist == IndexEntry(rowByKeyMap', hash)
          IN /\ \A hh \in DOMAIN rowByKeyMap :
                    IndexEntry(rowByKeyMap', hh) = rowByKeyMap[hh]
             /\ ret'.err # "DuplicateKey" => \A i \in new : AbsorbedWell(i)
             /\ ret'.err = "DuplicateKey" =>
                    /\ last \in new
                    /\ \A i \in new \ {last} : AbsorbedWell(i)
                    /\ HoldsKeyAfter(last)
                    /\ exist \in DOMAIN rows' \ {last}
                    /\ ret'.existLine = rows'[exist].rowLine
                    /\ ret'.newLine = rows'[last].rowLine
                    /\ RowUnderHeaders(headers', cells', ret'.newLine) =
                           GetValues(headers', rows'[last].rowRecord)]_vars

\* An addRecords has just failed on a record whose key the handle of line 2 holds.
C4_Witness ==
    /\ ret.op = "addRecords" /\ ret.err = "DuplicateKey"
    /\ ret.existLine = 2 /\ ret.newLine = 3
    /\ Len(rows) = 2 /\ KeyOf(rows[1]) = KeyOf(rows[2])
    /\ rowByKeyMap[GetRecordHash(keyHeaders, rows[2].rowRecord)] = 1

\* The worked example: the table constructed over the scenario sheet with the
\* key header id, and addRecords([{id: 2, name: "c"}]) as its first call.
ScenarioTable ==
    /\ ret.op = "construct" /\ ret.err = "none"
    /\ cells = ScenarioGrid /\ keyHeaders = <<"id">>

ScenarioAdd == AddRecords(<<[id |-> Num("2"), name |-> Str("c")]>>)

\* C5 as stated: in the worked example the call fails with the duplicate-key
\* error, which names line 3 for the new row and line 3 for the existing row.
C5_ScenarioNamesLines3And3 ==
    [][(ScenarioTable /\ ScenarioAdd) =>
          (ret'.err = "DuplicateKey" /\ ret'.newLine = 3 /\ ret'.existLine = 3)]_vars

\* C5 as amended: in the worked example the call fails with the duplicate-key
\* error, which names line 4 for the new row and line 3 for the existing row.
C5_ScenarioNamesLines4And3 ==
    [][(ScenarioTable /\ ScenarioAdd) =>
          (ret'.err = "DuplicateKey" /\ ret'.newLine = 4 /\ ret'.existLine = 3)]_vars

\* The worked example after the failed call.
C5_Witness ==
    /\ ret = [Ret("addRecords", "DuplicateKey") EXCEPT !.existLine = 3, !.newLine = 4]
    /\ keyHeaders = <<"id">>
    /\ rows = << SheetRow([id |-> Num("1"), name |-> Str("a")], 2),
                 SheetRow([id |-> Num("2"), name |-> Str("b")], 3),
                 SheetRow([id |-> Num("2"), name |-> Str("c")], 4) >>
    /\ cells[4] = ScenarioRow(Num("2"), Str("c"))
    /\ IsBlankRow(cells[5])

C7_WriteBeforeAbsorb ==
    [][\A b \in Batches(ScenarioRecords) :
         (AddRecords(b) /\ Len(b) > 0) =>
            /\ \A i \in 1..Len(b) :
                  RowUnderHeaders(headers, cells', range.lastRow + i) = GetValues(headers, b[i])
            /\ lastRow' = SheetLastRow(cells')
            /\ range' = SheetRange(cells')
            /\ ret'.err = "DuplicateKey" =>
                  /\ Len(rows') > Len(rows)
                  /\ rows'[Len(rows')].rowLine = ret'.newLine
                  /\ RowUnderHeaders(headers, cells', ret'.newLine) =
                         GetValues(headers, rows'[Len(rows')].rowRecord)]_vars

\* An addRecords of two records has failed on the first, at line 4, and the
\* second is in the grid at line 5 without a handle.
C7_Witness ==
    /\ ret.op = "addRecords" /\ ret.err = "DuplicateKey" /\ ret.newLine = 4
    /\ Len(rows) = 3
    /\ cells[4] = ScenarioRow(Num("2"), Str("c"))
    /\ cells[5] = ScenarioRow(Num("3"), Str("c"))
    /\ lastRow = 5

\* The key of null values only, one per key header.
AllNullKey == [i \in 1..Len(keyHeaders) |-> Null]

\* getRowByKey with the key of null values only gives undefined.
AllNullLookupGivesNone ==
    (status = "ready" /\ Indexed(keyHeaders)) =>
        GetRowByKey(keyHeaders, rowByKeyMap, AllNullKey) = [err |-> "none", row |-> 0]

\* C8: in every state of an indexed table getRowByKey with a key of null
\* values only gives undefined, and no handle whose key values are all null
\* is in the index.
C8_AllNullKeyNeverIndexed ==
    (status = "ready" /\ Indexed(keyHeaders)) =>
        /\ GetRowByKey(keyHeaders, rowByKeyMap, AllNullKey) = [err |-> "none", row |-> 0]
        /\ \A i \in DOMAIN rows :
              AllKeysNull(keyHeaders, rows[i].rowRecord) =>
                 \A hash \in DOMAIN rowByKeyMap : rowByKeyMap[hash] # i

\* C9: on a table constructed without key headers getRowByKey throws the
\* not-indexed error for every key; on an indexed table it throws the
\* key-arity error for every key whose number of values is not the number of
\* key headers; for every other key it returns a handle of the table or
\* undefined.
C9_GetRowByKeyErrors ==
    status = "ready" =>
        \A rowKeys \in KeyInputs :
            LET got == GetRowByKey(keyHeaders, rowByKeyMap, rowKeys)
            IN IF keyHeaders = <<>> THEN got.err = "NotIndexed"
               ELSE IF Len(rowKeys) # Len(keyHeaders) THEN got.err = "KeyArity"
               ELSE got.err = "none" /\ got.row \in {0} \cup DOMAIN GetRows

\* An indexed table in which one key gives a handle, another undefined, and a
\* key of two values the key-arity error.
C9_Witness ==
    /\ status = "ready" /\ keyHeaders = <<"id">>
    /\ GetRowByKey(keyHeaders, rowByKeyMap, <<Num("1")>>).row = 1
    /\ GetRowByKey(keyHeaders, rowByKeyMap, <<Num("2")>>) = [err |-> "none", row |-> 0]
    /\ GetRowByKey(keyHeaders, rowByKeyMap, <<Num("1"), Null>>).err = "KeyArity"

\* The header row the constructor reads, and the header errors it calls for.
HeaderRow(grid) == RangeValues(grid, SheetRange(grid))[1]

HeaderFaults(hdr) ==
    {e \in {"EmptyHeader", "NonStringHeader", "DuplicateHeader"} :
        \/ e = "EmptyHeader" /\ \E i \in DOMAIN hdr : hdr[i] = EmptyText
        \/ e = "NonStringHeader" /\ \E i \in DOMAIN hdr : hdr[i].t # "string"
        \/ e = "DuplicateHeader" /\ \E i, j \in DOMAIN hdr : i # j /\ hdr[i] = hdr[j]}

\* C10: the constructor, once it has found the sheet, one frozen row and a
\* range, throws on a header row with a repeated, an empty or a non-string
\* cell one of the header errors that cell calls for, and has created no
\* handle and no index entry, however many data rows the sheet has.
C10_BadHeaderFailsConstruction ==
    (/\ ret.op = "construct" /\ sheetExists /\ frozenRows = 1 /\ CanGetRange(cells)
     /\ HeaderFaults(HeaderRow(cells)) # {}) =>
        /\ status = "failed"
        /\ ret.err \in HeaderFaults(HeaderRow(cells))
        /\ rows = <<>>
        /\ rowByKeyMap = <<>>

\* The constructor has thrown the repeated-header error on a sheet with two
\* data rows.
C10_Witness ==
    /\ ret.op = "construct" /\ ret.err = "DuplicateHeader"
    /\ status = "failed" /\ rows = <<>>
    /\ SheetLastRow(cells) = 3 /\ ~IsBlankRow(cells[2])

\* The names of a header row, and the header errors of the constructor.
HeaderNames(hdr) == [i \in DOMAIN hdr |-> hdr[i].v]

HeaderErrors == {"EmptyHeader", "NonStringHeader", "DuplicateHeader"}

\* getHeaderColumn gives every header its place in the header row, from 1.
HeaderOrdinals(hdrs, hc) ==
    \A c \in DOMAIN hdrs : GetHeaderColumn(hc, hdrs[c]) = [err |-> "none", column |-> c]

\* getHeaderColumn throws the header-not-found error for a name that is no header.
UnknownHeaderFails(hdrs, hc) ==
    \A n \in FieldInputs \ Range(hdrs) :
        GetHeaderColumn(hc, n) = [err |-> "HeaderNotFound", column |-> 0]

\* C11: on a header row of distinct, non-empty string cells the constructor
\* throws no header error and takes the names of the row as its headers (it
\* returns unless a key or mandatory header is missing or two rows share a
\* key); in every state of a constructed table getHeaderColumn gives every
\* header its place in row 1 of the grid, from 1 and from the left, and
\* throws the header-not-found error for any other name; no addRecords and
\* no setValue changes the headers or their columns.
C11_HeaderColumnIsPlaceInHeaderRow ==
    [][/\ (/\ ret'.op = "construct" /\ sheetExists /\ frozenRows = 1
            /\ CanGetRange(cells) /\ HeaderFaults(HeaderRow(cells)) = {}) =>
              /\ ret'.err \notin HeaderErrors
              /\ ret'.err \in {"none", "MissingHeaders", "DuplicateKey"}
              /\ status' = "ready" <=> ret'.err = "none"
              /\ headers' = HeaderNames(HeaderRow(cells))
       /\ status' = "ready" =>
              /\ headers' = [c \in 1..Len(headers') |-> cells'[1][c].v]
              /\ HeaderOrdinals(headers', headerColumn')
              /\ UnknownHeaderFails(headers', headerColumn')
       /\ status = "ready" => (headers' = headers /\ headerColumn' = headerColumn)]_vars

\* A table over the header row (name, id) after a setValue: id is column 2.
C11_Witness ==
    /\ status = "ready" /\ ret.op = "setValue" /\ ret.err = "none"
    /\ headers = <<"name", "id">>
    /\ GetHeaderColumn(headerColumn, "id") = [err |-> "none", column |-> 2]
    /\ GetHeaderColumn(headerColumn, "name") = [err |-> "none", column |-> 1]
    /\ GetHeaderColumn(headerColumn, "code").err = "HeaderNotFound"

\* The steps of the constructor in the order of the construction protocol, by
\* the error each throws: sheet, frozen rows, occupied rectangle, header row,
\* key and mandatory headers, keys of the data rows; 7 when it returns.
ConstructStep(err, emptyErr) ==
    CASE err = "SheetNotFound" -> 1
      [] err \in {"NoFrozenHeader", "MultiRowHeader"} -> 2
      [] err = emptyErr -> 3
      [] err \in HeaderErrors -> 4
      [] err = "MissingHeaders" -> 5
      [] err = "DuplicateKey" -> 6
      [] err = "none" -> 7
      [] OTHER -> 0

\* Two data rows of the sheet hold the same key, not all null.
SharedKey(keys) ==
    LET rng == SheetRange(cells)
        hc == HeaderColumnOf(HeaderNames(HeaderRow(cells)))
        rec(r) == DecodeRow(hc, RangeValues(cells, rng)[r])
    IN /\ Len(keys) > 0
       /\ \E r1, r2 \in 2..rng.lastRow :
             /\ r1 < r2
             /\ ~AllKeysNull(keys, rec(r1))
             /\ KeyValues(keys, rec(r1)) = KeyValues(keys, rec(r2))

\* The first step of the protocol that the sheet and the options violate.
FirstViolatedStep(keys, mandatory) ==
    IF ~sheetExists THEN 1
    ELSE IF frozenRows # 1 THEN 2
    ELSE IF SheetLastRow(cells) = 0 \/ SheetLastColumn(cells) = 0 THEN 3
    ELSE IF HeaderFaults(HeaderRow(cells)) # {} THEN 4
    ELSE IF ~((Range(keys) \cup mandatory) \subseteq Range(HeaderNames(HeaderRow(cells)))) THEN 5
    ELSE IF SharedKey(keys) THEN 6
    ELSE 7

\* The constructor fails at the first violated step, whatever error emptyErr
\* stands for the occupied rectangle without rows or columns.
FailsInOrder(emptyErr) ==
    \A keys \in KeyHeaderOptions, mandatory \in MandatoryOptions :
        Construct(keys, mandatory) =>
            /\ ConstructStep(ret'.err, emptyErr) = FirstViolatedStep(keys, mandatory)
            /\ ret'.err = "NoFrozenHeader" <=> (sheetExists /\ frozenRows = 0)
            /\ ret'.err = "MultiRowHeader" <=> (sheetExists /\ frozenRows > 1)
            /\ status' = "ready" <=> ret'.err = "none"

\* C12: the constructor fails at the first step that the sheet and the
\* options violate, in the order missing sheet, frozen rows not one (zero, or
\* more than one), occupied rectangle without rows or columns (the empty-table
\* error), header row, key and mandatory headers, duplicate keys.
C12_ConstructionFailsInOrder ==
    [][FailsInOrder("EmptyTable")]_vars

\* The order of C12 holds with the error of getSheetRange for the occupied
\* rectangle without rows or columns: the step fails in its place, by the
\* throw of Sheet.getRange and not by the empty-table test.
ConstructionFailsInOrderByGetRange ==
    [][FailsInOrder("GetRangeFailed")]_vars

\* Records over the headers of the table whose values are not empty text:
\* null, numbers and strings.
CodecValues == {Null, Num("1"), Num("2"), Str("a")}

CodecRecords(hdrs) == [Range(hdrs) -> CodecValues]

\* C13: in every state of a constructed table, for any record over the
\* headers whose values are not empty text, the row loading of the constructor
\* gives back the record from the row getValues makes of it; and for every
\* handle with such a record whose row is in the grid at its line, the row of
\* the grid decodes to the record.
C13_DecodeOfEncodeIsRecord ==
    status = "ready" =>
        /\ \A rec \in CodecRecords(headers) :
              DecodeRow(headerColumn, GetValues(headers, rec)) = rec
        /\ \A i \in DOMAIN rows :
              (/\ rows[i].rowRecord \in CodecRecords(headers)
               /\ RowUnderHeaders(headers, cells, GetLine(rows[i]))
                      = GetValues(headers, rows[i].rowRecord))
                 => DecodeRow(headerColumn, RowUnderHeaders(headers, cells, GetLine(rows[i])))
                        = rows[i].rowRecord

\* An addRecords has written the row of a record with a null and a value
\* under the headers (id, name), and the row decodes to the record.
C13_Witness ==
    /\ ret.op = "addRecords" /\ ret.err = "none"
    /\ headers = <<"id", "name">> /\ Len(rows) = 1
    /\ rows[1].rowRecord = [id |-> Null, name |-> Str("a")]
    /\ GetValues(headers, rows[1].rowRecord) = <<EmptyText, Str("a")>>
    /\ cells[rows[1].rowLine] = <<EmptyText, Str("a")>>
    /\ DecodeRow(headerColumn, cells[rows[1].rowLine]) = rows[1].rowRecord

\* C14: no call writes a cell of the header row: the constructor, every
\* addRecords (one that throws too) and every setValue leave row 1 of the
\* grid as it was, so it is at any time the row the table was loaded from.
C14_HeaderRowNeverWritten ==
    [][/\ cells'[1] = cells[1]
       /\ status' = "ready" => headers' = [c \in 1..Len(headers') |-> cells'[1][c].v]
       /\ ret'.op = "setValue" => \A i \in DOMAIN rows : rows[i].rowLine >= 2
       /\ ret'.op = "addRecords" => lastRow + 1 >= 2]_vars

\* A table loaded from a header-only sheet (id, name), after an addRecords
\* that wrote row 2 and a setValue on its handle: row 1 is the header row.
C14_Witness ==
    /\ ret.op = "setValue" /\ ret.err = "none"
    /\ Len(rows) = 1 /\ rows[1].rowLine = 2
    /\ rows[1].rowRecord = [id |-> Num("2"), name |-> Str("a")]
    /\ cells[2] = <<Num("2"), Str("a")>>
    /\ cells[1] = <<Str("id"), Str("name")>>
    /\ IsBlankRow(cells[3])

\* C15: in every state of an indexed table, a handle that getRowByKey gives
\* for a key holds that key: the values of its record under the key headers
\* are the values of the key.
C15_LookupGivesHolderOfKey ==
    (status = "ready" /\ Indexed(keyHeaders)) =>
        \A k \in KeyInputs :
            LET got == GetRowByKey(keyHeaders, rowByKeyMap, k)
            IN (got.err = "none" /\ got.row # 0) => KeyOf(GetRows[got.row]) = k

\* The row of the grid at the line of handle i is the row of its record.
RowAtLineIsRecord(i) ==
    RowUnderHeaders(headers, cells, rows[i].rowLine) = GetValues(headers, rows[i].rowRecord)

\* C16: in every state of a constructed table, the row of the grid at the line
\* of each handle of getRows() is the row getValues makes of its record, the
\* first handle has line 2, and no two handles have the same line.
C16_HandlesAtTheirRows ==
    status = "ready" =>
        /\ \A i \in DOMAIN GetRows : RowAtLineIsRecord(i)
        /\ GetRows # <<>> => GetRows[1].rowLine = 2
        /\ \A i, j \in DOMAIN GetRows : i # j => GetRows[i].rowLine # GetRows[j].rowLine

\* C17: a setValue(f, v) that returns, on the handle h, leaves every cell of
\* the grid as it was but the cell at h's line in the column of f, which is v
\* (empty text for null); after it getValue(f) of h is v and every other field
\* of h's record is as it was; the line of h, the record and line of every
\* other handle, the number of handles, the end-of-table counter and the
\* cached range are as they were.
C17_SetValueChangesOneCellOneField ==
    [][(ret'.op = "setValue" /\ ret'.err = "none") =>
         \A h \in DOMAIN rows, f \in FieldInputs :
           \A v \in ValueInputs(f) : SetValue(h, f, v) =>
             LET line == GetLine(rows[h])
                 col == GetHeaderColumn(headerColumn, f).column
             IN /\ \A r \in DOMAIN cells, c \in 1..MaxCol :
                      <<r, c>> # <<line, col>> => cells'[r][c] = cells[r][c]
                /\ cells'[line][col] = IF v = Null THEN EmptyText ELSE v
                /\ GetValue(rows'[h], f) = [err |-> "none", value |-> v]
                /\ DOMAIN rows'[h].rowRecord = DOMAIN rows[h].rowRecord \cup {f}
                /\ \A g \in DOMAIN rows[h].rowRecord \ {f} :
                      GetValue(rows'[h], g) = GetValue(rows[h], g)
                /\ GetLine(rows'[h]) = line
                /\ DOMAIN rows' = DOMAIN rows
                /\ \A j \in DOMAIN rows \ {h} : rows'[j] = rows[j]
                /\ lastRow' = lastRow
                /\ range' = range]_vars

\* A setValue('id', null) has returned on the second of two handles, whose
\* record was (2, a): its row is (empty, a), the row of the first is (1, a).
C17_Witness ==
    /\ ret.op = "setValue" /\ ret.err = "none"
    /\ keyHeaders = <<"id">> /\ headers = <<"id", "name">>
    /\ Len(rows) = 2
    /\ rows[1] = SheetRow([id |-> Num("1"), name |-> Str("a")], 2)
    /\ rows[2] = SheetRow([id |-> Null, name |-> Str("a")], 3)
    /\ IndexEntry(rowByKeyMap, "[2]") = 2
    /\ cells[2] = <<Num("1"), Str("a")>>
    /\ cells[3] = <<EmptyText, Str("a")>>
    /\ lastRow = 3

\* A setValue on a name that is no header throws the header-not-found error
\* and leaves the grid, the handles and the index as they were.
SetValueOfUnknownHeaderFails ==
    (ret'.op = "setValue") =>
        \A h \in DOMAIN rows, f \in FieldInputs \ Range(headers), v \in AnyValue :
            SetValue(h, f, v) =>
                /\ ret'.err = "HeaderNotFound"
                /\ cells' = cells
                /\ rows' = rows
                /\ rowByKeyMap' = rowByKeyMap

\* The setValue half of C18 holds on every step.
UnknownHeaderSetValueFails ==
    [][SetValueOfUnknownHeaderFails]_vars

\* C18: on every handle of a constructed table, getValue on a name that is no
\* header throws the header-not-found error, and so does setValue, which
\* leaves the grid, the record of the handle and the index as they were.
C18_UnknownHeaderFailsClosed ==
    [][/\ SetValueOfUnknownHeaderFails
       /\ status' = "ready" =>
            \A h \in DOMAIN rows', f \in FieldInputs \ Range(headers') :
                GetValue(rows'[h], f).err = "HeaderNotFound"]_vars

\* The rows of the grid that a step changed.
ChangedRows == {r \in DOMAIN cells : cells'[r] # cells[r]}

\* An addRecords step, returning or throwing, changes only rows that follow
\* the last row with content and lie within one block of as many rows as the
\* batch has, and it leaves every handle there was as it was.
AddRecordsWritesAfterContent ==
    (ret'.op = "addRecords") =>
        /\ \A r \in ChangedRows : r > SheetLastRow(cells)
        /\ \A r1, r2 \in ChangedRows : r2 - r1 < MaxBatch
        /\ \A i \in DOMAIN rows : i \in DOMAIN rows' /\ rows'[i] = rows[i]

\* What of C19 holds on every step.
AddRecordsKeepsRowsWithContent ==
    [][AddRecordsWritesAfterContent]_vars

\* C19: every addRecords, returning or throwing, after whatever calls, changes
\* only rows of one block that follows the last row with content, leaves the
\* record and line of every handle there was as they were, and leaves every
\* row written before as it was: the rows up to the last row with content and
\* the rows at the lines of the handles.
C19_AddRecordsOnlyAppends ==
    [][/\ AddRecordsWritesAfterContent
       /\ ret'.op = "addRecords" =>
            \A i \in DOMAIN rows : GetLine(rows[i]) \notin ChangedRows]_vars

\* What a new SheetTable with the key headers of the table would load from
\* the grid as it is: its handles and index, or the error it would throw.
Reloaded ==
    LET rng == SheetRange(cells)
        sheetValues == RangeValues(cells, rng)
        hc == HeaderColumnOf(HeaderNames(sheetValues[1]))
        records == [i \in 1..(rng.lastRow - 1) |-> DecodeRow(hc, sheetValues[i + 1])]
    IN CreateInternalRows(keyHeaders, <<>>, <<>>, records, 1, 1)

\* The lines of handles, the record at a line, and the index as hash to line.
LinesOf(rws) == {GetLine(rws[i]) : i \in DOMAIN rws}

RecordsAt(rws, line) == {rws[i].rowRecord : i \in {j \in DOMAIN rws : GetLine(rws[j]) = line}}

KeyToLine(rws, idx) == [hash \in DOMAIN idx |-> GetLine(rws[idx[hash]])]

\* C20: in every state of a table reached by calls that returned, a new
\* construction over the grid as it is returns and gives handles at the same
\* lines, with the same record at each line, and the same index from key to
\* line as the table has.
C20_TableIsWhatReloadGives ==
    status = "ready" =>
        /\ Reloaded.err = "none"
        /\ LinesOf(Reloaded.rows) = LinesOf(GetRows)
        /\ \A line \in LinesOf(GetRows) :
              RecordsAt(Reloaded.rows, line) = RecordsAt(GetRows, line)
        /\ KeyToLine(Reloaded.rows, Reloaded.rowByKeyMap) = KeyToLine(GetRows, rowByKeyMap)

====
